---- MODULE Spec2Model ----
(***************************************************************************)
(* Model of image_generator.py: the create_image command, run_generation,  *)
(* FlexibleImageGenerator.__init__ / sanitize_filename / generate /        *)
(* generate_image_prompt / generate_image.                                 *)
(*                                                                         *)
(* Strings are sequences of characters.  A character is written as a      *)
(* one-token name; "U0130" is LATIN CAPITAL LETTER I WITH DOT ABOVE and    *)
(* "U0307" is COMBINING DOT ABOVE (str.lower() maps the former to "i"      *)
(* followed by the latter, and the latter is not matched by \w).           *)
(***************************************************************************)
EXTENDS Integers, Sequences, FiniteSets, TLC

\* ---------------------------------------------------------------- bounds
MaxDescLen == 2
MaxFileLen == 1
MaxOver == 1

\* ------------------------------------------------------ program constants
PrefixLen == 30
ProgressTotal == 100
AdvancePrompt == 30
AdvanceImage == 60
AdvanceSave == 10

\* --------------------------------------------------------------- strings
None == <<"<None>">>

Alphabet == {"a", "A", "-", " ", "!", "U0130"}

Digits == <<"0", "1", "2", "3", "4", "5", "6", "7", "8", "9">>

DigitSet == {Digits[i] : i \in 1..10}

Strings(n) == UNION {[1..k -> Alphabet] : k \in 0..n}

Truthy(x) == x # None /\ x # <<>>

\* \w of the re module on str patterns: alphanumerics and the underscore
IsWord(c) == c \in ({"a", "i", "A", "U0130", "_"} \cup DigitSet)

\* \s of the re module
IsSpace(c) == c = " "

IsKept(c) == IsWord(c) \/ IsSpace(c) \/ c = "-"

IsSep(c) == c = "-" \/ IsSpace(c)

\* re.sub(r"[^\w\s-]", "", filename)
RemoveUnsafe(s) == SelectSeq(s, IsKept)

RECURSIVE DropSeps(_)
DropSeps(s) ==
    IF s # <<>> /\ IsSep(Head(s)) THEN DropSeps(Tail(s)) ELSE s

\* re.sub(r"[-\s]+", "-", filename)
RECURSIVE CollapseSeps(_)
CollapseSeps(s) ==
    IF s = <<>> THEN <<>>
    ELSE IF IsSep(Head(s)) THEN <<"-">> \o CollapseSeps(DropSeps(Tail(s)))
    ELSE <<Head(s)>> \o CollapseSeps(Tail(s))

\* str.lower() on one character (may yield two characters)
LowerChar(c) ==
    CASE c = "A" -> <<"a">>
      [] c = "U0130" -> <<"i", "U0307">>
      [] OTHER -> <<c>>

RECURSIVE Lower(_)
Lower(s) == IF s = <<>> THEN <<>> ELSE LowerChar(Head(s)) \o Lower(Tail(s))

RECURSIVE LStripHyphen(_)
LStripHyphen(s) ==
    IF s # <<>> /\ Head(s) = "-" THEN LStripHyphen(Tail(s)) ELSE s

RECURSIVE RStripHyphen(_)
RStripHyphen(s) ==
    IF s # <<>> /\ s[Len(s)] = "-"
    THEN RStripHyphen(SubSeq(s, 1, Len(s) - 1))
    ELSE s

\* str.strip("-")
StripHyphen(s) == RStripHyphen(LStripHyphen(s))

sanitize_filename(filename) ==
    StripHyphen(Lower(CollapseSeps(RemoveUnsafe(filename))))

\* description[:30]
Prefix(s) == SubSeq(s, 1, IF Len(s) < PrefixLen THEN Len(s) ELSE PrefixLen)

\* zero-padded decimal field of strftime
RECURSIVE Pad(_, _)
Pad(n, width) ==
    IF width = 0 THEN <<>>
    ELSE Pad(n \div 10, width - 1) \o <<Digits[(n % 10) + 1]>>

\* datetime.strftime("%Y%m%d_%H%M%S")
strftime(t) ==
    Pad(t.year, 4) \o Pad(t.month, 2) \o Pad(t.day, 2) \o <<"_">>
        \o Pad(t.hour, 2) \o Pad(t.minute, 2) \o Pad(t.second, 2)

\* ---------------------------------------------------------------- inputs
Rep(c, n) == [i \in 1..n |-> c]

LongDescriptions ==
    {Rep(c, PrefixLen + k) : c \in {"a", "A", "U0130"}, k \in 0..MaxOver}

Descriptions == Strings(MaxDescLen) \cup LongDescriptions

Filenames == {None} \cup Strings(MaxFileLen)

Keys == {None, <<"k">>}

Clock ==
    {[year |-> 2024, month |-> 2, day |-> 29, hour |-> 9, minute |-> 5, second |-> 0],
     [year |-> 2025, month |-> 12, day |-> 31, hour |-> 23, minute |-> 59, second |-> 58]}

VARIABLES
    description,        \* create_image argument
    filename,           \* --filename option (None when absent)
    anthropic_api_key,  \* --anthropic-key / ANTHROPIC_API_KEY (None when absent)
    openai_api_key,     \* --openai-key / OPENAI_API_KEY (None when absent)
    verbose,            \* --verbose
    now,                \* value datetime.now() returns in the constructor
    dir_existed,        \* whether images_dir existed when the run began
    pc,                 \* position of the single thread of control
    run_filename,       \* local `filename` of run_generation after line 220
    self_filename,      \* generator.filename (None before construction)
    events,             \* effects of the run, in order of occurrence
    completed,          \* progress task's completed counter
    dir_exists,         \* images_dir exists on disk
    files,              \* names of the files present in images_dir
    console,            \* what console.print has printed, in order
    raised,             \* the exception that ended the try block, if any
    results,            \* result objects returned by generate
    exit_code           \* <<>> while running, <<code>> once exited

vars == <<description, filename, anthropic_api_key, openai_api_key, verbose,
          now, dir_existed, pc, run_filename, self_filename, events,
          completed, dir_exists, files, console, raised, results, exit_code>>

inputs == <<description, filename, anthropic_api_key, openai_api_key, verbose,
            now, dir_existed>>

Init ==
    /\ description \in Descriptions
    /\ filename \in Filenames
    /\ anthropic_api_key \in Keys
    /\ openai_api_key \in Keys
    /\ verbose \in BOOLEAN
    /\ now \in Clock
    /\ dir_existed \in BOOLEAN
    /\ pc = "create_image"
    /\ run_filename = None
    /\ self_filename = None
    /\ events = <<>>
    /\ completed = 0
    /\ dir_exists = dir_existed
    /\ files = {}
    /\ console = <<>>
    /\ raised = "none"
    /\ results = <<>>
    /\ exit_code = <<>>

\* --------------------------------------------------------------- helpers
Warning(v) == IF v THEN <<"warning_failed_to_generate_image">> ELSE <<>>

\* run_generation: `if not filename: filename = sanitize_filename(description[:30])`
ResolveFilename(fn, desc) ==
    IF ~Truthy(fn) THEN sanitize_filename(Prefix(desc)) ELSE fn

\* FlexibleImageGenerator.__init__: `if filename: ... else: timestamp`
InitFilename(fn, t) ==
    IF Truthy(fn) THEN sanitize_filename(fn) ELSE strftime(t)

\* self.images_dir / f"{self.filename}.png"
ImagePath(stem) == stem \o <<".", "p", "n", "g">>

\* an exception leaves generate through `with self.progress:` and reaches
\* the handler of create_image
Raise(exc, evs, printed) ==
    /\ raised' = exc
    /\ events' = events \o evs \o <<"progress_exit">>
    /\ console' = console \o printed
    /\ pc' = "except"

\* -------------------------------------------------------------- actions
\* variant: only the Anthropic credential is validated
ValidateKeys_AnthropicOnly ==
    /\ pc = "create_image"
    /\ IF ~Truthy(anthropic_api_key)
       THEN /\ console' = console \o <<"anthropic_key_required">>
            /\ raised' = "Exit"
            /\ pc' = "except"
       ELSE /\ pc' = "run_generation"
            /\ UNCHANGED <<console, raised>>
    /\ UNCHANGED <<inputs, run_filename, self_filename, events, completed,
                   dir_exists, files, results, exit_code>>

\* create_image: credential validation
ValidateKeys ==
    /\ pc = "create_image"
    /\ IF ~Truthy(anthropic_api_key)
       THEN /\ console' = console \o <<"anthropic_key_required">>
            /\ raised' = "Exit"
            /\ pc' = "except"
       ELSE IF ~Truthy(openai_api_key)
       THEN /\ console' = console \o <<"openai_key_required">>
            /\ raised' = "Exit"
            /\ pc' = "except"
       ELSE /\ pc' = "run_generation"
            /\ UNCHANGED <<console, raised>>
    /\ UNCHANGED <<inputs, run_filename, self_filename, events, completed,
                   dir_exists, files, results, exit_code>>

\* run_generation up to the construction of the generator
RunGeneration ==
    /\ pc = "run_generation"
    /\ run_filename' = ResolveFilename(filename, description)
    /\ self_filename' = InitFilename(run_filename', now)
    /\ pc' = "generate"
    /\ UNCHANGED <<inputs, events, completed, dir_exists, files, console,
                   raised, results, exit_code>>

\* variant: the start timestamp is taken inside the progress context
GenerateStart_TimerInside ==
    /\ pc = "generate"
    /\ events' = events \o <<"progress_enter", "time_start">>
    /\ completed' = 0
    /\ pc' = "generate_image_prompt"
    /\ UNCHANGED <<inputs, run_filename, self_filename, dir_exists, files,
                   console, raised, results, exit_code>>

\* generate: start_time, entering the progress context, add_task
GenerateStart ==
    /\ pc = "generate"
    /\ events' = events \o <<"time_start", "progress_enter">>
    /\ completed' = 0
    /\ pc' = "generate_image_prompt"
    /\ UNCHANGED <<inputs, run_filename, self_filename, dir_exists, files,
                   console, raised, results, exit_code>>

\* variant: the first advance is applied before the text-generation call
GenerateImagePrompt_AdvanceFirst ==
    /\ pc = "generate_image_prompt"
    /\ completed' = completed + AdvancePrompt
    /\ \/ /\ events' = events \o <<"advance_30", "text_call">>
          /\ pc' = "images_generate"
          /\ UNCHANGED <<console, raised>>
       \/ Raise("text_error", <<"advance_30", "text_call">>, <<>>)
    /\ UNCHANGED <<inputs, run_filename, self_filename, dir_exists, files,
                   results, exit_code>>

\* generate_image_prompt and the first progress advance
GenerateImagePrompt ==
    /\ pc = "generate_image_prompt"
    /\ \/ /\ events' = events \o <<"text_call", "advance_30">>
          /\ completed' = completed + AdvancePrompt
          /\ pc' = "images_generate"
          /\ UNCHANGED <<console, raised>>
       \/ /\ Raise("text_error", <<"text_call">>, <<>>)
          /\ UNCHANGED completed
    /\ UNCHANGED <<inputs, run_filename, self_filename, dir_exists, files,
                   results, exit_code>>

\* variant: the handler of generate_image does not re-raise
ImagesGenerate_Swallow ==
    /\ pc = "images_generate"
    /\ \/ /\ events' = events \o <<"image_call">>
          /\ pc' = "requests_get"
          /\ UNCHANGED <<console, raised>>
       \/ /\ raised' = "image_error"
          /\ events' = events \o <<"image_call">>
          /\ console' = console \o Warning(verbose)
          /\ pc' = "requests_get"
    /\ UNCHANGED <<inputs, run_filename, self_filename, completed, dir_exists,
                   files, results, exit_code>>

\* generate_image: openai_client.images.generate
ImagesGenerate ==
    /\ pc = "images_generate"
    /\ \/ /\ events' = events \o <<"image_call">>
          /\ pc' = "requests_get"
          /\ UNCHANGED <<console, raised>>
       \/ Raise("image_error", <<"image_call">>, Warning(verbose))
    /\ UNCHANGED <<inputs, run_filename, self_filename, completed, dir_exists,
                   files, results, exit_code>>

\* variant: a failed download is retried
RequestsGet_Retry ==
    /\ pc = "requests_get"
    /\ \/ /\ events' = events \o <<"http_get">>
          /\ pc' = "image_open"
          /\ UNCHANGED <<console, raised>>
       \/ /\ Len(events) < 12
          /\ events' = events \o <<"http_get">>
          /\ pc' = "requests_get"
          /\ UNCHANGED <<console, raised>>
    /\ UNCHANGED <<inputs, run_filename, self_filename, completed, dir_exists,
                   files, results, exit_code>>

\* generate_image: requests.get(image_url)
RequestsGet ==
    /\ pc = "requests_get"
    /\ \/ /\ events' = events \o <<"http_get">>
          /\ pc' = "image_open"
          /\ UNCHANGED <<console, raised>>
       \/ Raise("transport_error", <<"http_get">>, Warning(verbose))
    /\ UNCHANGED <<inputs, run_filename, self_filename, completed, dir_exists,
                   files, results, exit_code>>

\* variant: the directory is created before the image is decoded
ImageOpen_MkdirFirst ==
    /\ pc = "image_open"
    /\ dir_exists' = TRUE
    /\ \/ /\ events' = events \o <<"mkdir", "decode">>
          /\ pc' = "mkdir"
          /\ UNCHANGED <<console, raised>>
       \/ Raise("decode_error", <<"mkdir", "decode">>, Warning(verbose))
    /\ UNCHANGED <<inputs, run_filename, self_filename, completed, files,
                   results, exit_code>>

\* generate_image: Image.open(io.BytesIO(...))
ImageOpen ==
    /\ pc = "image_open"
    /\ \/ /\ events' = events \o <<"decode">>
          /\ pc' = "mkdir"
          /\ UNCHANGED <<console, raised>>
       \/ Raise("decode_error", <<"decode">>, Warning(verbose))
    /\ UNCHANGED <<inputs, run_filename, self_filename, completed, dir_exists,
                   files, results, exit_code>>

\* generate_image: images_dir.mkdir(parents=True, exist_ok=True)
Mkdir ==
    /\ pc = "mkdir"
    /\ \/ /\ events' = events \o <<"mkdir">>
          /\ dir_exists' = TRUE
          /\ pc' = "save"
          /\ UNCHANGED <<console, raised>>
       \/ /\ ~dir_exists
          /\ Raise("mkdir_error", <<"mkdir">>, Warning(verbose))
          /\ UNCHANGED dir_exists
    /\ UNCHANGED <<inputs, run_filename, self_filename, completed, files,
                   results, exit_code>>

\* generate_image: image.save(image_path); a failed save may leave a file
ImageSave ==
    /\ pc = "save"
    /\ \/ /\ events' = events \o <<"file_write">>
          /\ files' = files \cup {ImagePath(self_filename)}
          /\ pc' = "generate_finish"
          /\ UNCHANGED <<console, raised>>
       \/ /\ Raise("save_error", <<"file_write">>, Warning(verbose))
          /\ files' \in {files, files \cup {ImagePath(self_filename)}}
    /\ UNCHANGED <<inputs, run_filename, self_filename, completed, dir_exists,
                   results, exit_code>>

\* generate: last two advances, leaving the progress context, elapsed time
GenerateFinish ==
    /\ pc = "generate_finish"
    /\ events' = events \o <<"advance_60", "advance_10", "progress_exit",
                              "time_end">>
    /\ completed' = completed + AdvanceImage + AdvanceSave
    /\ results' = results \o <<[image_path |-> ImagePath(self_filename),
                                prompt |-> "image_prompt",
                                generation_time |-> "elapsed"]>>
    /\ pc' = "report"
    /\ UNCHANGED <<inputs, run_filename, self_filename, dir_exists, files,
                   console, raised, exit_code>>

\* run_generation: the completion banner; create_image returns
Report ==
    /\ pc = "report"
    /\ console' = console \o <<"generation_complete", "processing_time">>
                    \o (IF verbose THEN <<"generated_prompt">> ELSE <<>>)
                    \o <<"image_saved_to">>
    /\ exit_code' = <<0>>
    /\ pc' = "exited"
    /\ UNCHANGED <<inputs, run_filename, self_filename, events, completed,
                   dir_exists, files, raised, results>>

\* create_image: `except Exception as e`; typer.Exit is click's Exit, a
\* RuntimeError, so the handler also receives the Exit raised by validation
HandleException ==
    /\ pc = "except"
    /\ console' = console \o <<"error_during_generation">>
                    \o (IF verbose THEN <<"traceback">> ELSE <<>>)
    /\ exit_code' = <<1>>
    /\ pc' = "exited"
    /\ UNCHANGED <<inputs, run_filename, self_filename, events, completed,
                   dir_exists, files, raised, results>>

Next ==
    \/ ValidateKeys
    \/ RunGeneration
    \/ GenerateStart
    \/ GenerateImagePrompt
    \/ ImagesGenerate
    \/ RequestsGet
    \/ ImageOpen
    \/ Mkdir
    \/ ImageSave
    \/ GenerateFinish
    \/ Report
    \/ HandleException

Spec == Init /\ [][Next]_vars

TypeOK ==
    /\ pc \in {"create_image", "run_generation", "generate",
               "generate_image_prompt", "images_generate", "requests_get",
               "image_open", "mkdir", "save", "generate_finish", "report",
               "except", "exited"}
    /\ completed \in 0..ProgressTotal
    /\ Len(results) <= 1

\* ------------------------------------------------------------ properties
IsPrefix(s, t) == Len(s) <= Len(t) /\ s = SubSeq(t, 1, Len(s))

Occurs(e, seq) == \E i \in DOMAIN seq : seq[i] = e

Count(e, seq) == Cardinality({i \in DOMAIN seq : seq[i] = e})

\* position of the first occurrence of e in events (0 when absent)
Index(e) ==
    IF Occurs(e, events)
    THEN CHOOSE i \in DOMAIN events :
            events[i] = e /\ \A j \in 1..(i - 1) : events[j] # e
    ELSE 0

Before(a, b) == Occurs(a, events) /\ Index(a) < Index(b)

EffectOrder == <<"text_call", "image_call", "http_get", "file_write">>

IsEffect(e) == Occurs(e, EffectOrder)

Effects == SelectSeq(events, IsEffect)

AdvanceOrder == <<"advance_30", "advance_60", "advance_10">>

IsAdvance(e) == Occurs(e, AdvanceOrder)

Advances == SelectSeq(events, IsAdvance)

AdvanceSum(n) ==
    CASE n = 0 -> 0
      [] n = 1 -> AdvancePrompt
      [] n = 2 -> AdvancePrompt + AdvanceImage
      [] OTHER -> AdvancePrompt + AdvanceImage + AdvanceSave

ImageStageErrors ==
    {"image_error", "transport_error", "decode_error", "mkdir_error",
     "save_error"}

NonConfigErrors == {"text_error"} \cup ImageStageErrors

MissingCredential == ~Truthy(anthropic_api_key) \/ ~Truthy(openai_api_key)

Succeeded == pc = "exited" /\ exit_code = <<0>>

\* C1: the external effects of a run form a prefix of text-generation call,
\* image-generation call, HTTP GET, file write (fixed order, each at most
\* once), and a run that succeeds has performed all four exactly once.
C1_EffectsInOrder ==
    /\ IsPrefix(Effects, EffectOrder)
    /\ (results # <<>> \/ Succeeded) => Effects = EffectOrder

C1_Witness == Succeeded /\ Effects = EffectOrder

\* C2: with a required credential missing the run performs no network call
\* and no filesystem effect at any point, and it exits with code 1.
C2_MissingCredential ==
    MissingCredential =>
        /\ Effects = <<>>
        /\ ~Occurs("mkdir", events)
        /\ files = {}
        /\ dir_exists = dir_existed
        /\ pc \in {"create_image", "except", "exited"}
        /\ pc = "exited" => exit_code = <<1>>

C2_Witness ==
    /\ pc = "exited"
    /\ Truthy(anthropic_api_key)
    /\ ~Truthy(openai_api_key)
    /\ exit_code = <<1>>
    /\ events = <<>>

\* C3: when the image-generation call fails, no HTTP GET is performed, no
\* file is written, no result object is produced, and the run ends with an
\* error message printed and exit code 1.
C3_ImageCallError ==
    raised = "image_error" =>
        /\ ~Occurs("http_get", events)
        /\ ~Occurs("file_write", events)
        /\ files = {}
        /\ results = <<>>
        /\ pc \in {"except", "exited"}
        /\ pc = "exited" =>
              /\ Occurs("error_during_generation", console)
              /\ exit_code = <<1>>

C3_Witness ==
    /\ pc = "exited"
    /\ raised = "image_error"
    /\ Occurs("image_call", events)
    /\ exit_code = <<1>>

\* C6: the progress counter starts at 0 and is advanced by 30 after the
\* text-generation call, then by 60 and by 10 after the file write; it never
\* exceeds 100, reaches 100 only when both stages succeeded, stays at 0 when
\* prompt synthesis fails and at 30 when the image stage fails.
C6_Progress ==
    /\ IsPrefix(Advances, AdvanceOrder)
    /\ completed = AdvanceSum(Len(Advances))
    /\ completed <= ProgressTotal
    /\ Occurs("advance_30", events) => Before("text_call", "advance_30")
    /\ Occurs("advance_60", events) => Before("file_write", "advance_60")
    /\ pc \in {"create_image", "run_generation", "generate"} => completed = 0
    /\ completed = ProgressTotal => raised = "none" /\ Effects = EffectOrder
    /\ raised = "text_error" => completed = 0
    /\ raised \in ImageStageErrors => completed = AdvancePrompt
    /\ Succeeded => completed = ProgressTotal

C6_Witness == Succeeded /\ completed = ProgressTotal /\ Len(Advances) = 3

\* C9 (as amended): the elapsed-time window opens before the progress
\* indicator is set up and closes after the final progress updates and the
\* indicator's teardown, so setup, both network calls, all advances and
\* teardown fall between the two timestamps.
C9_TimingWindow ==
    /\ Occurs("time_start", events) =>
          /\ events[1] = "time_start"
          /\ Count("time_start", events) = 1
    /\ Occurs("progress_enter", events) => Before("time_start", "progress_enter")
    /\ Occurs("time_end", events) =>
          /\ events[Len(events)] = "time_end"
          /\ Before("progress_enter", "text_call")
          /\ Before("text_call", "image_call")
          /\ Before("image_call", "advance_60")
          /\ Before("advance_60", "advance_10")
          /\ Before("advance_10", "progress_exit")
          /\ Before("progress_exit", "time_end")
    /\ results # <<>> => Occurs("time_end", events)

C9_Witness == results # <<>> /\ Occurs("time_end", events) /\ Succeeded

\* C9 (as stated): the start timestamp is taken after progress-indicator
\* setup and the end timestamp before teardown and the final updates.
C9_Original ==
    /\ Occurs("time_start", events) => Before("progress_enter", "time_start")
    /\ Occurs("time_end", events) =>
          /\ Before("time_end", "progress_exit")
          /\ Before("time_end", "advance_60")

\* C10: a failure stops every later effect: after a failed text-generation
\* call there is no image call, download, directory creation or file write;
\* the directory is created only after image call, download and decode have
\* succeeded; a run failing before the save step leaves directory and files
\* as they were.
C10_FailureStops ==
    /\ raised = "text_error" =>
          /\ Effects = <<"text_call">>
          /\ ~Occurs("decode", events)
          /\ ~Occurs("mkdir", events)
    /\ Occurs("mkdir", events) =>
          /\ Before("image_call", "http_get")
          /\ Before("http_get", "decode")
          /\ Before("decode", "mkdir")
          /\ raised \notin {"image_error", "transport_error", "decode_error"}
    /\ raised \in {"Exit", "text_error", "image_error", "transport_error",
                   "decode_error"} =>
          /\ dir_exists = dir_existed
          /\ files = {}
          /\ ~Occurs("file_write", events)
    /\ raised # "none" => results = <<>>

C10_Witness ==
    /\ pc = "exited"
    /\ raised = "decode_error"
    /\ ~dir_existed
    /\ ~dir_exists
    /\ Occurs("decode", events)

IsLowerWord(c) == IsWord(c) /\ LowerChar(c) = <<c>>

\* the string whose sanitization decides the filename
FilenameBasis == IF Truthy(filename) THEN filename ELSE Prefix(description)

\* C4: the generator's filename is never empty and contains only lowercase
\* word characters and hyphens; when sanitization yields the empty string
\* the filename is the timestamp.
C4_FilenameSafe ==
    self_filename # None =>
        /\ self_filename # <<>>
        /\ \A i \in DOMAIN self_filename :
              IsLowerWord(self_filename[i]) \/ self_filename[i] = "-"
        /\ sanitize_filename(FilenameBasis) = <<>> =>
              self_filename = strftime(now)

\* C5: sanitizing an already sanitized name changes nothing, so the
\* description-derived filename, sanitized in run_generation and again in
\* the constructor, equals the once-sanitized value.
C5_Idempotent ==
    self_filename # None =>
        /\ sanitize_filename(sanitize_filename(FilenameBasis))
              = sanitize_filename(FilenameBasis)
        /\ (~Truthy(filename) /\ Truthy(run_filename)) =>
              self_filename = run_filename

ExpectedName ==
    IF Truthy(filename) THEN sanitize_filename(filename)
    ELSE IF sanitize_filename(Prefix(description)) # <<>>
         THEN sanitize_filename(Prefix(description))
         ELSE strftime(now)

IsTimestamp(s) ==
    /\ Len(s) = 15
    /\ s[9] = "_"
    /\ \A i \in (1..15) \ {9} : s[i] \in DigitSet

\* C7: a successful run writes exactly one file, <images_dir>/<name>.png,
\* <name> being the sanitized explicit filename, else the sanitized first 30
\* characters of the description, else a YYYYMMDD_HHMMSS timestamp; the
\* directory is created before the write.
C7_OutputFile ==
    Succeeded =>
        /\ files = {ImagePath(ExpectedName)}
        /\ results[1].image_path = ImagePath(ExpectedName)
        /\ Count("file_write", events) = 1
        /\ dir_exists
        /\ Before("mkdir", "file_write")
        /\ (~Truthy(filename) /\ sanitize_filename(Prefix(description)) = <<>>)
              => IsTimestamp(self_filename)

\* C8: "Error during generation" is printed exactly once in a run that ends
\* with a non-configuration error and not at all otherwise (success, missing
\* credential); a missing credential prints its own message; the trace is
\* printed only when verbose; the exit code is 0 on success, 1 on failure.
C8_ErrorReporting ==
    pc = "exited" =>
        /\ Count("error_during_generation", console)
              = (IF raised \in NonConfigErrors THEN 1 ELSE 0)
        /\ raised = "Exit" =>
              \/ Occurs("anthropic_key_required", console)
              \/ Occurs("openai_key_required", console)
        /\ Occurs("traceback", console) => verbose
        /\ exit_code = (IF raised = "none" THEN <<0>> ELSE <<1>>)

====
